---- MODULE Spec2Model ----
(***************************************************************************)
(* The lazy-paginated PDF viewer of src/src/pdf_viewer.py: PDFPageWidget   *)
(* (one page entry), PDFPageContainer (the page sequence) and PDFViewer    *)
(* (viewport sweep, zoom and gesture controller, selection).               *)
(*                                                                         *)
(* Numbers.  A zoom factor is a Python float; here it is a fixed-point     *)
(* integer counting eighths (ZoomDen): 1.0 is 8, 0.25 is 2, 3.0 is 24.     *)
(* Bounds are compared on the exact product before it is truncated to the  *)
(* grid.  Pixel sizes are integers, int(points * zoom * 2) as in the code. *)
(***************************************************************************)
EXTENDS Integers, Sequences, FiniteSets, TLC

\* ------------------------------------------------------------ constants

\* Denominator of the fixed-point zoom (self._zoom = 1.0 is ZoomDen/ZoomDen).
ZoomDen == 8
\* self._zoom = 1.0 (constructor and load_pdf)
ZoomInitial == 8
\* zoom_out: if self._zoom > 0.25; gestures: 0.25 <= new_zoom
ZoomMin == 2
\* zoom_in: if self._zoom < 3.0; gestures: new_zoom <= 3.0
ZoomMax == 24
\* self._zoom += 0.25 / -= 0.25
ZoomStep == 2
\* fitz.Matrix(self._zoom * 2, ...), int(rect.width * self._zoom * 2)
RenderScale == 2
\* self._layout.setContentsMargins(10, 10, 10, 10)
LayoutMargin == 10
\* self._layout.setSpacing(20)
LayoutSpacing == 20
\* self._rerender_timer.start(150), in milliseconds
ThrottleMs == 150

\* ------------------------------------------------------------ bounds

\* Cap of the count of gesture updates coalesced in one throttle window.
MaxWindowUpdates == 2
\* How far (in eighths) the user of Spec takes the zoom from the initial 1.0.
UserZoomSpan == 1
\* How many zoom steps the user of SpecSel and SpecF takes from the initial 1.0.
UserZoomSteps == 1

\* ------------------------------------------------------------ inputs

NoDoc == 0
NoPage == -1
NoZoom == 0
NoPoint == <<>>

\* The documents the provider can open: per document the page rectangles
\* (width, height) in points.  The sides of the last one are odd, so that
\* their products with a zoom are not whole pixels.
DocPages ==
  << << <<4, 8>>, <<6, 4>>, <<4, 12>> >>,
     << <<4, 6>> >>,
     << <<3, 5>> >> >>

Docs == { 1, 2 }

OddDocs == { 3 }

PageCount(d) == Len(DocPages[d])

PageRect(d, p) == DocPages[d][p + 1]

\* Heights the viewport can be resized to, and the positions the user scrolls to.
ViewportHeights == {12, 30}

\* The height of a viewport that shows several pages at once.
TallViewportHeights == {96}

ScrollStops == {0, 24, 48}

\* Mouse positions of drags in every direction over a page.
DragPositions == { <<0, 0>>, <<4, 2>>, <<2, 5>> }

\* Mouse positions, relative to the page widget.
MousePositions == { <<0, 0>>, <<4, 2>> }

\* A pinch event whose changeFlags() lack ScaleFactorChanged.
NoScale == 0

\* Scale factors of a pinch and deltas of a native zoom gesture, in eighths:
\* wide ones (SpecZoom) and fine ones (Spec).
PinchScales == {3, 23, 40}

NativeDeltas == {-4, 4}

FinePinchScales == {7, 9, 40}

FineNativeDeltas == {-1, 1}

\* The zooms the user stays within in Spec, and in SpecSel and SpecF.
UserZooms == (ZoomInitial - UserZoomSpan)..(ZoomInitial + UserZoomSpan)

StepZooms ==
  (ZoomInitial - UserZoomSteps * ZoomStep)..(ZoomInitial + UserZoomSteps * ZoomStep)

\* Texts the provider's get_text(...).strip() can return for a region.
Texts == {"", "txt"}

\* ------------------------------------------------------------ state

VARIABLES
  doc,                \* self._doc: NoDoc or the open document
  doc_closed,         \* self._doc is a handle that has been closed
  pdf_path,           \* self._pdf_path (the document it names, NoDoc for "")
  current_page,       \* self._current_page
  page_spin,          \* self.page_spin.value()
  zoom,               \* self._zoom
  gesture_base_zoom,  \* self._gesture_base_zoom
  in_gesture,         \* self._in_gesture
  pending_rerender,   \* self._pending_rerender
  timer_active,       \* self._rerender_timer.isActive()
  timer_interval,     \* self._rerender_timer.interval(), in milliseconds
  page_widgets,       \* self.page_container._page_widgets
  scroll,             \* self.scroll_area.verticalScrollBar().value()
  viewport_height,    \* self.scroll_area.viewport().height()
  event,              \* the handler that ran last
  swept,              \* the viewport state the last sweep processed
  render_calls,       \* get_pixmap calls the last handler made to the provider
  unload_calls,       \* widgets the last handler unloaded
  rerenders,          \* _rerender_all_pages runs of the last handler
  window_updates,     \* throttled gesture updates of the latest timer window
  failed_renders,     \* pages whose get_pixmap raised in the last handler
  region_calls,       \* get_text and clipped get_pixmap calls of the last handler
  sweeps,             \* runs of the loop of _update_visible_pages in the last handler
  emitted             \* signals the last handler emitted, in order

vars == << doc, doc_closed, pdf_path, current_page, page_spin, zoom,
           gesture_base_zoom, in_gesture, pending_rerender, timer_active,
           timer_interval, page_widgets, scroll, viewport_height, event, swept,
           render_calls, unload_calls, rerenders, window_updates,
           failed_renders, region_calls, sweeps, emitted >>

\* ------------------------------------------------------------ helpers

Min(a, b) == IF a <= b THEN a ELSE b

Max(a, b) == IF a >= b THEN a ELSE b

\* round(rect.width * zoom * 2) in place of int(...).
DisplaySizeRounded(rect, z) ==
  << (rect[1] * z * RenderScale * 2 + ZoomDen) \div (2 * ZoomDen),
     (rect[2] * z * RenderScale * 2 + ZoomDen) \div (2 * ZoomDen) >>

\* int(rect.width * zoom * 2), int(rect.height * zoom * 2): truncation of a
\* positive product.
DisplaySize(rect, z) ==
  << (rect[1] * z * RenderScale) \div ZoomDen,
     (rect[2] * z * RenderScale) \div ZoomDen >>

\* ------------------------------------------------------------ PDFPageWidget

\* PDFPageWidget.__init__
NewPageWidget ==
  [ page           |-> NoPage,
    zoom           |-> NoZoom,
    selection_start |-> NoPoint,
    selection_end  |-> NoPoint,
    selected_text  |-> "",
    is_selecting   |-> FALSE,
    page_number    |-> -1,
    is_rendered    |-> FALSE,
    placeholder_size |-> <<0, 0>>,
    pixmap_size    |-> <<0, 0>>,
    fixed_size     |-> <<0, 0>> ]

\* PDFPageWidget.set_placeholder.  The widget's _zoom is written by set_page
\* alone and read only under a set _page (in _render_page,
\* _extract_selected_text and capture_selection_screenshot), so the model
\* forgets it together with the page.
set_placeholder(w, page_num, width, height) ==
  [ w EXCEPT !.page_number = page_num,
             !.is_rendered = FALSE,
             !.placeholder_size = <<width, height>>,
             !.page = NoPage,
             !.zoom = NoZoom,
             !.selection_start = NoPoint,
             !.selection_end = NoPoint,
             !.selected_text = "",
             !.pixmap_size = <<width, height>>,
             !.fixed_size = <<width, height>> ]

\* unload_page that does not reset _selected_text.
unload_page_keeps_text(w) ==
  IF w.is_rendered /\ w.placeholder_size[1] > 0
  THEN [ w EXCEPT !.page = NoPage,
                  !.zoom = NoZoom,
                  !.is_rendered = FALSE,
                  !.selection_start = NoPoint,
                  !.selection_end = NoPoint,
                  !.pixmap_size = w.placeholder_size ]
  ELSE w

\* unload_page leaving the page handle in place.
unload_page_keeps_page(w) ==
  IF w.is_rendered /\ w.placeholder_size[1] > 0
  THEN [ w EXCEPT !.is_rendered = FALSE,
                  !.selection_start = NoPoint,
                  !.selection_end = NoPoint,
                  !.selected_text = "",
                  !.pixmap_size = w.placeholder_size ]
  ELSE w

\* PDFPageWidget.unload_page
unload_page(w) ==
  IF w.is_rendered /\ w.placeholder_size[1] > 0
  THEN [ w EXCEPT !.page = NoPage,
                  !.zoom = NoZoom,
                  !.is_rendered = FALSE,
                  !.selection_start = NoPoint,
                  !.selection_end = NoPoint,
                  !.selected_text = "",
                  !.pixmap_size = w.placeholder_size ]
  ELSE w

\* PDFPageWidget._render_page: the pixmap the provider returns for the
\* widget's page at the widget's zoom.
render_page(w, d) ==
  IF w.page = NoPage
  THEN w
  ELSE [ w EXCEPT !.pixmap_size = DisplaySize(PageRect(d, w.page), w.zoom) ]

\* set_page without clear_selection.
set_page_keeps_selection(w, d, page, z) ==
  render_page([ w EXCEPT !.page = page, !.zoom = z, !.is_rendered = TRUE ], d)

\* set_page that does not mark the widget rendered.
set_page_unmarked(w, d, page, z) ==
  render_page([ w EXCEPT !.page = page,
                         !.zoom = z,
                         !.selection_start = NoPoint,
                         !.selection_end = NoPoint,
                         !.selected_text = "" ], d)

\* PDFPageWidget.set_page
set_page(w, d, page, z) ==
  render_page([ w EXCEPT !.page = page,
                         !.zoom = z,
                         !.is_rendered = TRUE,
                         !.selection_start = NoPoint,
                         !.selection_end = NoPoint,
                         !.selected_text = "" ], d)

\* PDFPageWidget.has_selection
has_selection(w) == w.selection_start # NoPoint /\ w.selection_end # NoPoint

\* ------------------------------------------------------------ layout

\* widget.height(): the size set_placeholder fixed.
WidgetHeight(w) == w.fixed_size[2]

RECURSIVE SumHeights(_, _)
SumHeights(ws, n) ==
  IF n = 0 THEN 0 ELSE SumHeights(ws, n - 1) + WidgetHeight(ws[n])

\* widget.y() of the i-th widget (1-based) of the QVBoxLayout: top margin,
\* then the widgets above it, each followed by the spacing.
WidgetTop(ws, i) == LayoutMargin + SumHeights(ws, i - 1) + (i - 1) * LayoutSpacing

WidgetBottom(ws, i) == WidgetTop(ws, i) + WidgetHeight(ws[i])

\* Height of the page container.
ContentHeight(ws) ==
  IF Len(ws) = 0 THEN 0
  ELSE WidgetBottom(ws, Len(ws)) + LayoutMargin

\* verticalScrollBar().maximum()
ScrollMax(ws, vh) == Max(0, ContentHeight(ws) - vh)

\* ------------------------------------------------------------ viewport sweep

\* in_view without the buffer of one viewport height.
InViewNoBuffer(ws, i, top, vh) ==
  /\ WidgetBottom(ws, i) >= top
  /\ WidgetTop(ws, i) <= top + vh

\* in_view of _update_visible_pages
InView(ws, i, top, vh) ==
  LET viewport_bottom == top + vh
      buffer_pixels == vh
  IN  /\ WidgetBottom(ws, i) >= top - buffer_pixels
      /\ WidgetTop(ws, i) <= viewport_bottom + buffer_pixels

\* One iteration of the loop of _update_visible_pages.
SweepWidget(ws, i, d, z, top, vh) ==
  IF InView(ws, i, top, vh) /\ ~ws[i].is_rendered
  THEN set_page(ws[i], d, ws[i].page_number, z)
  ELSE IF ~InView(ws, i, top, vh) /\ ws[i].is_rendered
       THEN unload_page(ws[i])
       ELSE ws[i]

\* PDFViewer._update_visible_pages: neither branch changes a widget's
\* geometry, so every iteration sees the layout the loop started with.
UpdateVisiblePages(ws, d, z, top, vh) ==
  IF d = NoDoc THEN ws
  ELSE [ i \in 1..Len(ws) |-> SweepWidget(ws, i, d, z, top, vh) ]

\* The provider calls and unloads of that sweep, as page numbers.
SweepRenders(ws, d, top, vh) ==
  IF d = NoDoc THEN {}
  ELSE { ws[i].page_number : i \in { j \in 1..Len(ws) :
           InView(ws, j, top, vh) /\ ~ws[j].is_rendered } }

SweepUnloads(ws, d, top, vh) ==
  IF d = NoDoc THEN {}
  ELSE { ws[i].page_number : i \in { j \in 1..Len(ws) :
           /\ ~InView(ws, j, top, vh) /\ ws[j].is_rendered
           /\ ws[j].placeholder_size[1] > 0 } }

\* set_page when get_pixmap raises in _render_page: the assignments before the
\* call are made, the pixmap stays the one the label had.
set_page_render_fails(w, page, z) ==
  [ w EXCEPT !.page = page,
             !.zoom = z,
             !.is_rendered = TRUE,
             !.selection_start = NoPoint,
             !.selection_end = NoPoint,
             !.selected_text = "" ]

\* _update_visible_pages when the provider raises for page b, a page the
\* sweep renders: the loop handles the widgets before it, the exception
\* leaves set_page and the loop, and the widgets after it are not looked at.
SweepUntilFailure(ws, d, z, top, vh, b) ==
  [ i \in 1..Len(ws) |->
      IF ws[i].page_number < b THEN SweepWidget(ws, i, d, z, top, vh)
      ELSE IF ws[i].page_number = b THEN set_page_render_fails(ws[i], b, z)
      ELSE ws[i] ]

\* PDFViewer._update_page_indicator: the first widget that holds the centre
\* of the viewport becomes the current page.
CentreWidgets(ws, top, vh) ==
  { i \in 1..Len(ws) :
      /\ WidgetTop(ws, i) <= top + (vh \div 2)
      /\ top + (vh \div 2) <= WidgetBottom(ws, i) }

\* The page indicator of a loop that tests only widget_top <= viewport_center
\* and does not break: the last entry that starts at or above the centre.
PageIndicatorAbove(ws, d, top, vh, cur) ==
  LET above == { i \in 1..Len(ws) : WidgetTop(ws, i) <= top + (vh \div 2) }
  IN  IF d = NoDoc \/ above = {}
      THEN cur
      ELSE ws[CHOOSE k \in above : \A m \in above : m <= k].page_number

PageIndicator(ws, d, top, vh, cur) ==
  IF d = NoDoc \/ CentreWidgets(ws, top, vh) = {}
  THEN cur
  ELSE LET i == CHOOSE k \in CentreWidgets(ws, top, vh) :
                  \A m \in CentreWidgets(ws, top, vh) : k <= m
       IN  ws[i].page_number

\* page_spin.setValue(page_num + 1) happens only when the page changes.
SpinIndicator(ws, d, top, vh, cur, spin) ==
  IF PageIndicator(ws, d, top, vh, cur) # cur
  THEN PageIndicator(ws, d, top, vh, cur) + 1
  ELSE spin

\* ------------------------------------------------------------ re-render

\* The loop of _rerender_all_pages: every widget back to a placeholder of
\* the size of its page at the viewer's zoom.
ResetPlaceholders(ws, d, z) ==
  [ i \in 1..Len(ws) |->
      LET size == DisplaySize(PageRect(d, ws[i].page_number), z)
      IN  set_placeholder(ws[i], ws[i].page_number, size[1], size[2]) ]

\* ------------------------------------------------------------ viewer state

\* The viewer and what the last handler did, as one record.
Self ==
  [ doc |-> doc, doc_closed |-> doc_closed, pdf_path |-> pdf_path,
    current_page |-> current_page, page_spin |-> page_spin, zoom |-> zoom,
    gesture_base_zoom |-> gesture_base_zoom, in_gesture |-> in_gesture,
    pending_rerender |-> pending_rerender, timer_active |-> timer_active,
    timer_interval |-> timer_interval, page_widgets |-> page_widgets,
    scroll |-> scroll, viewport_height |-> viewport_height,
    event |-> event, swept |-> swept, render_calls |-> render_calls,
    unload_calls |-> unload_calls, rerenders |-> rerenders,
    window_updates |-> window_updates, failed_renders |-> failed_renders,
    region_calls |-> region_calls, sweeps |-> sweeps,
    emitted |-> emitted ]

\* The state a handler starts from: nothing done yet.  The count of coalesced
\* updates is kept while the timer runs.
Enter(ev) ==
  [ Self EXCEPT !.event = ev, !.render_calls = 0, !.unload_calls = 0,
                !.rerenders = 0, !.emitted = <<>>, !.failed_renders = {},
                !.region_calls = {}, !.sweeps = 0,
                !.window_updates = IF timer_active THEN @ ELSE 0 ]

\* The state a handler leaves.
Leave(s) ==
  /\ doc' = s.doc
  /\ doc_closed' = s.doc_closed
  /\ pdf_path' = s.pdf_path
  /\ current_page' = s.current_page
  /\ page_spin' = s.page_spin
  /\ zoom' = s.zoom
  /\ gesture_base_zoom' = s.gesture_base_zoom
  /\ in_gesture' = s.in_gesture
  /\ pending_rerender' = s.pending_rerender
  /\ timer_active' = s.timer_active
  /\ timer_interval' = s.timer_interval
  /\ page_widgets' = s.page_widgets
  /\ scroll' = s.scroll
  /\ viewport_height' = s.viewport_height
  /\ event' = s.event
  /\ swept' = s.swept
  /\ render_calls' = s.render_calls
  /\ unload_calls' = s.unload_calls
  /\ rerenders' = s.rerenders
  /\ window_updates' = s.window_updates
  /\ failed_renders' = s.failed_renders
  /\ region_calls' = s.region_calls
  /\ sweeps' = s.sweeps
  /\ emitted' = s.emitted

\* PDFViewer._update_visible_pages on the viewer record.
update_visible_pages(s) ==
  IF s.doc = NoDoc THEN s
  ELSE [ s EXCEPT
           !.page_widgets = UpdateVisiblePages(s.page_widgets, s.doc, s.zoom,
                                               s.scroll, s.viewport_height),
           !.render_calls = @ + Cardinality(SweepRenders(s.page_widgets, s.doc,
                                               s.scroll, s.viewport_height)),
           !.unload_calls = @ + Cardinality(SweepUnloads(s.page_widgets, s.doc,
                                               s.scroll, s.viewport_height)),
           !.sweeps = @ + 1,
           !.swept = [ top |-> s.scroll, height |-> s.viewport_height ] ]

\* _update_visible_pages on the viewer record when get_pixmap raises for
\* page b.
update_visible_pages_fails(s, b) ==
  [ s EXCEPT
      !.page_widgets = SweepUntilFailure(s.page_widgets, s.doc, s.zoom,
                                         s.scroll, s.viewport_height, b),
      !.render_calls = @ + 1 + Cardinality({ p \in SweepRenders(s.page_widgets,
                             s.doc, s.scroll, s.viewport_height) : p < b }),
      !.unload_calls = @ + Cardinality({ p \in SweepUnloads(s.page_widgets,
                             s.doc, s.scroll, s.viewport_height) : p < b }),
      !.failed_renders = @ \cup { b },
      !.sweeps = @ + 1,
      !.swept = [ top |-> s.scroll, height |-> s.viewport_height ] ]

\* PDFViewer._update_page_indicator on the viewer record.
update_page_indicator(s) ==
  [ s EXCEPT
      !.current_page = PageIndicator(s.page_widgets, s.doc, s.scroll,
                                     s.viewport_height, s.current_page),
      !.page_spin = SpinIndicator(s.page_widgets, s.doc, s.scroll,
                                  s.viewport_height, s.current_page, s.page_spin) ]

\* PDFViewer._on_scroll_changed
on_scroll_changed(s) == update_page_indicator(update_visible_pages(s))

\* _rerender_all_pages without the sweep after the reset.
rerender_all_pages_no_sweep(s) ==
  IF s.doc = NoDoc THEN s
  ELSE [ s EXCEPT !.page_widgets = ResetPlaceholders(s.page_widgets, s.doc, s.zoom),
                  !.rerenders = @ + 1 ]

\* PDFViewer._rerender_all_pages on the viewer record.
rerender_all_pages(s) ==
  IF s.doc = NoDoc THEN s
  ELSE update_visible_pages(
         [ s EXCEPT !.page_widgets = ResetPlaceholders(s.page_widgets, s.doc, s.zoom),
                    !.rerenders = @ + 1 ])

\* ymargin of ensureWidgetVisible(widget, 0, 50)
EnsureVisibleMargin == 50

\* The value QScrollArea.ensureWidgetVisible gives the vertical scroll bar for
\* widget i: unchanged when the widget lies inside the viewport; otherwise the
\* widget's rectangle grown by the margin is centred when it is taller than
\* the viewport, and else its bottom or top edge is brought in.  Rectangles
\* are QRects: the bottom is top + height - 1.  setValue bounds the value by
\* the scroll bar's range.
EnsureVisibleValue(ws, i, top, vh) ==
  LET wtop    == WidgetTop(ws, i)
      wbottom == WidgetTop(ws, i) + WidgetHeight(ws[i]) - 1
      ftop    == wtop - EnsureVisibleMargin
      fbottom == wbottom + EnsureVisibleMargin
      vbottom == top + vh - 1
      value   == IF wtop >= top /\ wbottom <= vbottom THEN top
                 ELSE IF fbottom - ftop + 1 > vh
                      THEN ((ftop + fbottom) \div 2) - (vh \div 2)
                 ELSE IF fbottom > vbottom THEN fbottom - vh + 1
                 ELSE IF ftop < top THEN ftop
                 ELSE top
  IN  Max(0, Min(value, ScrollMax(ws, vh)))

\* PDFPageContainer.get_page_widget: None outside the list.
NoWidget == << >>

get_page_widget(ws, page_num) ==
  IF 0 <= page_num /\ page_num < Len(ws) THEN ws[page_num + 1] ELSE NoWidget

\* self._page_widgets[page_num] raises IndexError outside [-len, len).
ListIndexRaises(ws, page_num) == page_num < -Len(ws) \/ page_num >= Len(ws)

\* get_page_widget raises when the list access it reaches raises; it has no
\* raise statement of its own.
get_page_widget_raises(ws, page_num) ==
  /\ 0 <= page_num /\ page_num < Len(ws)
  /\ ListIndexRaises(ws, page_num)

\* PDFViewer.go_to_page.  A scroll bar value that changes emits valueChanged,
\* which runs _on_scroll_changed inside ensureWidgetVisible.
go_to_page(s, page_num) ==
  IF s.doc # NoDoc /\ 0 <= page_num /\ page_num < PageCount(s.doc)
  THEN LET s1 == [ s EXCEPT !.current_page = page_num, !.page_spin = page_num + 1 ]
           v  == EnsureVisibleValue(s.page_widgets, page_num + 1, s.scroll,
                                    s.viewport_height)
       IN  IF get_page_widget(s.page_widgets, page_num) = NoWidget THEN s1
           ELSE update_visible_pages(
                  IF v # s.scroll
                  THEN on_scroll_changed([ s1 EXCEPT !.scroll = v ])
                  ELSE s1)
  ELSE s

\* PDFViewer.next_page
next_page(s) ==
  IF s.doc # NoDoc /\ s.current_page < PageCount(s.doc) - 1
  THEN go_to_page(s, s.current_page + 1)
  ELSE s

\* PDFViewer.previous_page
previous_page(s) ==
  IF s.doc # NoDoc /\ s.current_page > 0
  THEN go_to_page(s, s.current_page - 1)
  ELSE s

\* PDFViewer._throttled_rerender
throttled_rerender(s) ==
  IF s.pending_rerender
  THEN rerender_all_pages([ s EXCEPT !.pending_rerender = FALSE ])
  ELSE s

\* The throttled branch of _request_rerender: mark the re-render pending and
\* start the single-shot timer unless it is running.
throttle_rerender(s) ==
  IF s.timer_active
  THEN [ s EXCEPT !.pending_rerender = TRUE,
                  !.window_updates = Min(MaxWindowUpdates, @ + 1) ]
  ELSE [ s EXCEPT !.pending_rerender = TRUE,
                  !.timer_active = TRUE,
                  !.timer_interval = ThrottleMs,
                  !.window_updates = 1 ]

\* _request_rerender whose throttled branch marks the re-render pending and
\* starts no timer.
request_rerender_no_timer(s, immediate) ==
  IF immediate \/ ~s.in_gesture
  THEN rerender_all_pages([ s EXCEPT !.timer_active = FALSE ])
  ELSE [ s EXCEPT !.pending_rerender = TRUE ]

\* _request_rerender that never throttles.
request_rerender_unthrottled(s, immediate) ==
  rerender_all_pages([ s EXCEPT !.timer_active = FALSE ])

\* _request_rerender whose immediate branch leaves the timer running.
request_rerender_keeps_timer(s, immediate) ==
  IF immediate \/ ~s.in_gesture
  THEN rerender_all_pages(s)
  ELSE throttle_rerender(s)

\* PDFViewer._request_rerender
request_rerender(s, immediate) ==
  IF immediate \/ ~s.in_gesture
  THEN rerender_all_pages([ s EXCEPT !.timer_active = FALSE ])
  ELSE throttle_rerender(s)

\* ------------------------------------------------------------ load and close

\* The placeholder loop of load_pdf stopping one page early.
PlaceholdersButLast(d, n, z) ==
  [ i \in 1..(n - 1) |->
      LET size == DisplaySize(PageRect(d, i - 1), z)
      IN  set_placeholder(NewPageWidget, i - 1, size[1], size[2]) ]

\* The placeholders load_pdf creates for pages 0..n-1 of document d.
Placeholders(d, n, z) ==
  [ i \in 1..n |->
      LET size == DisplaySize(PageRect(d, i - 1), z)
      IN  set_placeholder(NewPageWidget, i - 1, size[1], size[2]) ]

\* load_pdf up to and including fitz.open(path) and the assignments after it.
load_opened(s, d) ==
  [ s EXCEPT !.doc = d, !.doc_closed = FALSE, !.pdf_path = d,
             !.current_page = 0, !.zoom = ZoomInitial, !.page_spin = 1,
             !.page_widgets = <<>> ]

\* PDFViewer.load_pdf, every provider call succeeding.
load_pdf(s, d) ==
  LET s1 == load_opened(s, d)
      s2 == [ s1 EXCEPT !.page_widgets = Placeholders(d, PageCount(d), s1.zoom) ]
      s3 == update_visible_pages(s2)
  IN  [ s3 EXCEPT !.emitted = @ \o << "pdf_loaded", "status_message" >> ]

\* load_pdf when fitz.open(path) raises: the old document is closed and the
\* pages are cleared before the provider is asked.
load_pdf_open_fails(s) ==
  [ s EXCEPT !.doc_closed = (s.doc # NoDoc),
             !.page_widgets = <<>>,
             !.emitted = @ \o << "status_message" >> ]

\* load_pdf when the provider raises on page k while the placeholders are
\* created: the widgets of the pages before k stay in the container.
load_pdf_page_fails(s, d, k) ==
  LET s1 == load_opened(s, d)
  IN  [ s1 EXCEPT !.page_widgets = Placeholders(d, k, s1.zoom),
                  !.emitted = @ \o << "status_message" >> ]

\* load_pdf when get_pixmap raises for page b in the initial sweep: every
\* placeholder exists, the sweep stops at b, and the except branch reports.
load_pdf_render_fails(s, d, b) ==
  LET s1 == load_opened(s, d)
      s2 == [ s1 EXCEPT !.page_widgets = Placeholders(d, PageCount(d), s1.zoom) ]
      s3 == update_visible_pages_fails(s2, b)
  IN  [ s3 EXCEPT !.emitted = @ \o << "status_message" >> ]

\* The pages the initial sweep of load_pdf(d) renders.
InitialRenders(s, d) ==
  SweepRenders(Placeholders(d, PageCount(d), ZoomInitial), d,
               s.scroll, s.viewport_height)

\* load_pdf when self._doc is a closed handle: self._doc.close() raises
\* before anything is changed.
load_pdf_on_closed(s) ==
  [ s EXCEPT !.emitted = @ \o << "status_message" >> ]

\* close_pdf without clear_pages.
close_pdf_keeps_pages(s) ==
  IF s.doc # NoDoc
  THEN [ s EXCEPT !.doc = NoDoc, !.pdf_path = NoDoc ]
  ELSE s

\* PDFViewer.close_pdf
close_pdf(s) ==
  IF s.doc # NoDoc
  THEN [ s EXCEPT !.page_widgets = <<>>, !.doc = NoDoc, !.pdf_path = NoDoc ]
  ELSE s

\* ------------------------------------------------------------ zoom

\* zoom_in whose guard is self._zoom <= 3.0.
zoom_in_inclusive(s) ==
  IF s.zoom <= ZoomMax
  THEN rerender_all_pages([ s EXCEPT !.zoom = @ + ZoomStep ])
  ELSE s

\* zoom_in that clamps the zoom and re-renders whether or not it changed.
zoom_in_always(s) ==
  rerender_all_pages([ s EXCEPT !.zoom = Min(ZoomMax, @ + ZoomStep) ])

\* PDFViewer.zoom_in
zoom_in(s) ==
  IF s.zoom < ZoomMax
  THEN rerender_all_pages([ s EXCEPT !.zoom = @ + ZoomStep ])
  ELSE s

\* PDFViewer.zoom_out
zoom_out(s) ==
  IF s.zoom > ZoomMin
  THEN rerender_all_pages([ s EXCEPT !.zoom = @ - ZoomStep ])
  ELSE s

\* 0.25 <= new_zoom <= 3.0 for new_zoom = num / ZoomDen^2, compared exactly.
ZoomInBounds(num) ==
  ZoomMin * ZoomDen <= num /\ num <= ZoomMax * ZoomDen

\* A gesture update that clamps an out-of-bounds zoom to the bound and takes it.
gesture_update_clamped(s, num) ==
  request_rerender(
    [ s EXCEPT !.zoom = Max(ZoomMin, Min(ZoomMax, num \div ZoomDen)) ], FALSE)

\* A gesture update to new_zoom = num / ZoomDen^2: taken when in bounds.
gesture_update(s, num) ==
  IF ZoomInBounds(num)
  THEN request_rerender([ s EXCEPT !.zoom = num \div ZoomDen ], FALSE)
  ELSE s

\* _pinch_triggered whose GestureFinished branch requests no re-render.
pinch_triggered_no_final(s, state, scale) ==
  LET s1 == IF state = "started"
            THEN [ s EXCEPT !.gesture_base_zoom = s.zoom, !.in_gesture = TRUE ]
            ELSE s
      s2 == IF scale # NoScale
            THEN gesture_update(s1, s1.gesture_base_zoom * scale)
            ELSE s1
  IN  IF state = "finished" THEN [ s2 EXCEPT !.in_gesture = FALSE ] ELSE s2

\* _pinch_triggered that scales the current zoom instead of the snapshot.
pinch_triggered_incremental(s, state, scale) ==
  LET s1 == IF state = "started"
            THEN [ s EXCEPT !.gesture_base_zoom = s.zoom, !.in_gesture = TRUE ]
            ELSE s
      s2 == IF scale # NoScale
            THEN gesture_update(s1, s1.zoom * scale)
            ELSE s1
  IN  IF state = "finished"
      THEN request_rerender([ s2 EXCEPT !.in_gesture = FALSE ], TRUE)
      ELSE s2

\* PDFViewer._pinch_triggered
pinch_triggered(s, state, scale) ==
  LET s1 == IF state = "started"
            THEN [ s EXCEPT !.gesture_base_zoom = s.zoom, !.in_gesture = TRUE ]
            ELSE s
      s2 == IF scale # NoScale
            THEN gesture_update(s1, s1.gesture_base_zoom * scale)
            ELSE s1
  IN  IF state = "finished"
      THEN request_rerender([ s2 EXCEPT !.in_gesture = FALSE ], TRUE)
      ELSE s2

\* PDFViewer._native_gesture_event
native_gesture_event(s, type, delta) ==
  CASE type = "begin" -> [ s EXCEPT !.gesture_base_zoom = s.zoom, !.in_gesture = TRUE ]
    [] type = "zoom"  -> gesture_update(s, s.zoom * (ZoomDen + delta))
    [] type = "end"   -> request_rerender([ s EXCEPT !.in_gesture = FALSE ], TRUE)

\* ------------------------------------------------------------ selection

\* QPoint.__bool__: the null point (0, 0) is false.
PointSet(p) == p # NoPoint /\ p # <<0, 0>>

\* offset_x, offset_y of the mouse handlers: the pixmap is centred in the label.
PixmapOffset(w) ==
  << (w.fixed_size[1] - w.pixmap_size[1]) \div 2,
     (w.fixed_size[2] - w.pixmap_size[2]) \div 2 >>

LabelPoint(w, pos) == << pos[1] - PixmapOffset(w)[1], pos[2] - PixmapOffset(w)[2] >>

\* PDFPageWidget.mousePressEvent, left button
mouse_press(w, pos) ==
  [ w EXCEPT !.is_selecting = TRUE,
             !.selection_start = LabelPoint(w, pos),
             !.selection_end = LabelPoint(w, pos) ]

\* PDFPageWidget.mouseMoveEvent
mouse_move(w, d, pos) ==
  IF w.is_selecting
  THEN render_page([ w EXCEPT !.selection_end = LabelPoint(w, pos) ], d)
  ELSE w

\* get_pixmap calls of that mouseMoveEvent
MouseMoveRenders(w) == IF w.is_selecting /\ w.page # NoPage THEN 1 ELSE 0

\* The guard of _extract_selected_text and capture_selection_screenshot.
CanExtract(w) ==
  w.page # NoPage /\ PointSet(w.selection_start) /\ PointSet(w.selection_end)

\* scale taken from the viewer's zoom instead of the widget's.
SelectionScaleOfViewer(w) == << zoom * RenderScale, ZoomDen >>

\* scale = self._zoom * 2, as the fraction (numerator, denominator).
SelectionScale(w) == << w.zoom * RenderScale, ZoomDen >>

\* x / self._zoom: the division without the factor 2 of the rendering.
DocCoordNoRenderScale(x, w) == << x * ZoomDen, w.zoom >>

\* x / scale, a float in the code, as the exact fraction of integers.
DocCoord(x, w) == << x * SelectionScale(w)[2], SelectionScale(w)[1] >>

\* x1, y1, x2, y2 of _extract_selected_text and capture_selection_screenshot:
\* the selection normalised by min and max, then divided by scale.
DocRect(w) ==
  << DocCoord(Min(w.selection_start[1], w.selection_end[1]), w),
     DocCoord(Min(w.selection_start[2], w.selection_end[2]), w),
     DocCoord(Max(w.selection_start[1], w.selection_end[1]), w),
     DocCoord(Max(w.selection_start[2], w.selection_end[2]), w) >>

\* get_text takes no matrix.
NoMatrix == <<>>

\* self._page.get_text("text", clip=rect) of _extract_selected_text
ExtractCalls(w) ==
  IF CanExtract(w)
  THEN { [ op |-> "get_text", page |-> w.page, rect |-> DocRect(w),
           matrix |-> NoMatrix ] }
  ELSE {}

\* PDFPageWidget.capture_selection_screenshot: the clipped get_pixmap call it
\* makes; it returns an image when it makes the call and None otherwise.
capture_selection_screenshot(w) ==
  IF CanExtract(w)
  THEN { [ op |-> "get_pixmap", page |-> w.page, rect |-> DocRect(w),
           matrix |-> SelectionScale(w) ] }
  ELSE {}

\* PDFViewer._find_widget_with_selection: the widgets with a selection; the
\* first of them is returned.
WidgetsWithSelection(ws) == { i \in 1..Len(ws) : has_selection(ws[i]) }

find_widget_with_selection(ws) ==
  CHOOSE i \in WidgetsWithSelection(ws) : \A j \in WidgetsWithSelection(ws) : i <= j

\* PDFViewer.keyPressEvent, key S
key_screenshot(s) ==
  IF WidgetsWithSelection(s.page_widgets) = {}
  THEN [ s EXCEPT !.emitted = << "status_message" >> ]
  ELSE LET w == s.page_widgets[find_widget_with_selection(s.page_widgets)]
       IN  [ s EXCEPT
               !.region_calls = capture_selection_screenshot(w),
               !.emitted = IF capture_selection_screenshot(w) # {}
                           THEN << "screenshot_captured", "status_message" >>
                           ELSE <<>> ]

\* PDFViewer.keyPressEvent, key C: the text of the first widget with a
\* selection goes to the clipboard when it is not empty.
key_copy(s) ==
  IF WidgetsWithSelection(s.page_widgets) = {}
  THEN s
  ELSE LET w == s.page_widgets[find_widget_with_selection(s.page_widgets)]
       IN  IF w.selected_text # ""
           THEN [ s EXCEPT !.emitted = << "text_copied", "status_message" >> ]
           ELSE s

\* PDFPageWidget._extract_selected_text, the provider returning text
extract_selected_text(w, text) ==
  IF CanExtract(w) THEN [ w EXCEPT !.selected_text = text ] ELSE w

\* PDFPageWidget.mouseReleaseEvent, left button
mouse_release(w, text) ==
  IF w.is_selecting
  THEN extract_selected_text([ w EXCEPT !.is_selecting = FALSE ], text)
  ELSE w

\* text_selected reaches PDFViewer._on_text_selected, which emits a status.
MouseReleaseEmits(w, text) ==
  IF w.is_selecting /\ CanExtract(w) /\ text # ""
  THEN << "text_selected", "status_message" >>
  ELSE <<>>

\* ------------------------------------------------------------ initial state

Init ==
  /\ doc = NoDoc
  /\ doc_closed = FALSE
  /\ pdf_path = NoDoc
  /\ current_page = 0
  /\ page_spin = 1
  /\ zoom = ZoomInitial
  /\ gesture_base_zoom = ZoomInitial
  /\ in_gesture = FALSE
  /\ pending_rerender = FALSE
  /\ timer_active = FALSE
  /\ timer_interval = 0
  /\ page_widgets = <<>>
  /\ scroll = 0
  /\ viewport_height = CHOOSE h \in ViewportHeights : \A g \in ViewportHeights : g <= h
  /\ event = "init"
  /\ swept = [ top |-> 0, height |-> 0 ]
  /\ render_calls = 0
  /\ unload_calls = 0
  /\ rerenders = 0
  /\ window_updates = 0
  /\ failed_renders = {}
  /\ region_calls = {}
  /\ sweeps = 0
  /\ emitted = <<>>

\* ------------------------------------------------------------ actions

\* load_pdf(path) of a file the provider opens.
LoadPdf ==
  \E d \in Docs :
    /\ ~doc_closed
    /\ Leave(load_pdf(Enter("load_pdf"), d))

\* load_pdf(path) of a document with odd page sides.
LoadOddPdf ==
  \E d \in OddDocs :
    /\ ~doc_closed
    /\ Leave(load_pdf(Enter("load_pdf"), d))

\* close_pdf()
ClosePdf ==
  /\ ~doc_closed
  /\ Leave(close_pdf(Enter("close_pdf")))

\* The user moves the scroll bar: valueChanged runs _on_scroll_changed.
ScrollTo ==
  \E v \in ScrollStops :
    /\ v # scroll
    /\ v <= ScrollMax(page_widgets, viewport_height)
    /\ Leave(on_scroll_changed([ Enter("scroll") EXCEPT !.scroll = v ]))

\* The content or the viewport changed and the scroll bar's value exceeds its
\* new maximum: Qt lowers the value, and valueChanged runs _on_scroll_changed.
ScrollClamp ==
  /\ scroll > ScrollMax(page_widgets, viewport_height)
  /\ Leave(on_scroll_changed(
       [ Enter("scroll") EXCEPT !.scroll = ScrollMax(page_widgets, viewport_height) ]))

\* The viewport is resized; the viewer connects no handler to it.
ResizeOf(heights) ==
  \E h \in heights :
    /\ h # viewport_height
    /\ Leave([ Enter("resize") EXCEPT !.viewport_height = h ])

Resize == ResizeOf(ViewportHeights)

\* The viewport is resized, also to a height that shows several pages at once.
ResizeTall == ResizeOf(ViewportHeights \cup TallViewportHeights)

\* Page numbers go_to_page is called with; the spin box gives those of the
\* document only.
PageJumps == -1 .. 3

\* go_to_page(page_num), from the spin box or a caller of the viewer
GoToPage ==
  \E page_num \in PageJumps : Leave(go_to_page(Enter("go_to_page"), page_num))

\* next_page(): the next button, the Right and PageDown keys
NextPage == Leave(next_page(Enter("next_page")))

\* previous_page(): the previous button, the Left and PageUp keys
PreviousPage == Leave(previous_page(Enter("previous_page")))

\* zoom_in(): toolbar button, menu action or Ctrl+wheel
ZoomIn == Leave(zoom_in(Enter("zoom_in")))

\* zoom_out()
ZoomOut == Leave(zoom_out(Enter("zoom_out")))

\* A pinch gesture event.  Qt sends Started first, then Updated events, then
\* Finished or Canceled: the later ones find the gesture begun.
PinchStates == { "started", "updated", "finished", "canceled" }

PinchOf(scales) ==
  \E state \in PinchStates, scale \in scales \cup { NoScale } :
    /\ state = "started" \/ in_gesture
    /\ Leave(pinch_triggered(Enter("pinch"), state, scale))

Pinch == PinchOf(PinchScales)

\* A native gesture event: Begin, then Zoom events, then End.
NativeTypes == { "begin", "zoom", "end" }

NativeGestureOf(deltas) ==
  \E type \in NativeTypes, delta \in deltas :
    /\ type = "begin" \/ in_gesture
    /\ Leave(native_gesture_event(Enter("native"), type, delta))

NativeGesture == NativeGestureOf(NativeDeltas)

\* The single-shot timer times out, timer_interval after it was started:
\* _throttled_rerender.
TimerFire ==
  /\ timer_active
  /\ Leave(throttled_rerender([ Enter("timeout") EXCEPT !.timer_active = FALSE ]))

\* The button is up when no widget is in a drag.
ButtonUp == \A i \in 1..Len(page_widgets) : ~page_widgets[i].is_selecting

\* The left button goes down on page widget i.
MousePressOf(positions) ==
  \E i \in 1..Len(page_widgets), pos \in positions :
    /\ ButtonUp
    /\ Leave([ Enter("mouse_press") EXCEPT
                 !.page_widgets[i] = mouse_press(@, pos) ])

MousePress == MousePressOf(MousePositions)

\* The mouse moves over the widget that holds the drag.
MouseMoveOf(positions) ==
  \E i \in 1..Len(page_widgets), pos \in positions :
    /\ page_widgets[i].is_selecting
    /\ Leave([ Enter("mouse_move") EXCEPT
                 !.page_widgets[i] = mouse_move(@, doc, pos),
                 !.render_calls = MouseMoveRenders(page_widgets[i]) ])

MouseMove == MouseMoveOf(MousePositions)

\* The left button goes up over the widget that holds the drag.
MouseRelease ==
  \E i \in 1..Len(page_widgets), text \in Texts :
    /\ page_widgets[i].is_selecting
    /\ Leave([ Enter("mouse_release") EXCEPT
                 !.page_widgets[i] = mouse_release(@, text),
                 !.region_calls = ExtractCalls(page_widgets[i]),
                 !.emitted = MouseReleaseEmits(page_widgets[i], text) ])

\* The C key: the selected text is copied.
KeyCopy ==
  Leave(key_copy(Enter("key_c")))

\* The S key: a screenshot of the selection.
KeyScreenshot ==
  Leave(key_screenshot(Enter("key_s")))

\* load_pdf(path) of a file the provider cannot open.
LoadPdfOpenFails ==
  /\ ~doc_closed
  /\ Leave(load_pdf_open_fails(Enter("load_pdf_failed")))

\* load_pdf(path) of a file whose page k the provider cannot load.
LoadPdfPageFails ==
  \E d \in Docs :
    \E k \in 0..(PageCount(d) - 1) :
      /\ ~doc_closed
      /\ Leave(load_pdf_page_fails(Enter("load_pdf_failed"), d, k))

\* load_pdf(path) of a file one page of which the provider cannot render.
LoadPdfRenderFails ==
  \E d \in Docs :
    \E b \in InitialRenders(Self, d) :
      /\ ~doc_closed
      /\ Leave(load_pdf_render_fails(Enter("load_pdf_failed"), d, b))

\* load_pdf(path) after a failed reload left a closed handle in self._doc.
LoadPdfOnClosed ==
  /\ doc_closed
  /\ Leave(load_pdf_on_closed(Enter("load_pdf_failed")))

\* ------------------------------------------------------------ environments

\* The user of Spec zooms by steps and by fine gestures and keeps the zoom
\* near 1.0.
UserZoomIn == ZoomIn /\ zoom' \in UserZooms

UserZoomOut == ZoomOut /\ zoom' \in UserZooms

UserPinch == PinchOf(FinePinchScales) /\ zoom' \in UserZooms

UserNativeGesture == NativeGestureOf(FineNativeDeltas) /\ zoom' \in UserZooms

\* The user of SpecSel and SpecF zooms by a few steps only.
StepZoomIn == ZoomIn /\ zoom' \in StepZooms

StepZoomOut == ZoomOut /\ zoom' \in StepZooms

\* Drags between the positions of DragPositions.
DragPress == MousePressOf(DragPositions)

DragMove == MouseMoveOf(DragPositions)

\* ------------------------------------------------------------ specifications

\* The viewport: documents are loaded and closed, scrolled and resized, and
\* zoomed near 1.0 by steps and gestures.  The provider answers every call.
Next ==
  \/ LoadPdf
  \/ ClosePdf
  \/ ScrollTo
  \/ ScrollClamp
  \/ Resize
  \/ UserZoomIn
  \/ UserZoomOut
  \/ UserPinch
  \/ UserNativeGesture
  \/ TimerFire

Spec == Init /\ [][Next]_vars

\* The zoom and gesture controller over its whole range, the viewport at rest.
NextZoom ==
  \/ LoadPdf
  \/ ClosePdf
  \/ ZoomIn
  \/ ZoomOut
  \/ Pinch
  \/ NativeGesture
  \/ TimerFire

SpecZoom == Init /\ [][NextZoom]_vars

\* Selection: the mouse, with loading, closing, scrolling and zoom steps.
NextSel ==
  \/ LoadPdf
  \/ ClosePdf
  \/ ScrollTo
  \/ ScrollClamp
  \/ StepZoomIn
  \/ StepZoomOut
  \/ MousePress
  \/ MouseMove
  \/ MouseRelease
  \/ KeyCopy

SpecSel == Init /\ [][NextSel]_vars

\* Loading with a provider that may fail to open a file or to load a page.
NextF ==
  \/ LoadPdf
  \/ LoadPdfOpenFails
  \/ LoadPdfPageFails
  \/ LoadPdfRenderFails
  \/ LoadPdfOnClosed
  \/ ClosePdf
  \/ ScrollTo
  \/ ScrollClamp
  \/ StepZoomIn
  \/ StepZoomOut

SpecF == Init /\ [][NextF]_vars

\* Navigation: a document is scrolled, zoomed by steps, and its pages are
\* jumped to.
NextNav ==
  \/ LoadPdf
  \/ ClosePdf
  \/ ScrollTo
  \/ ScrollClamp
  \/ ResizeTall
  \/ StepZoomIn
  \/ StepZoomOut
  \/ GoToPage
  \/ NextPage
  \/ PreviousPage

SpecNav == Init /\ [][NextNav]_vars

\* Discrete zoom steps over the whole range, on documents of even and of odd
\* page sides.
NextSteps ==
  \/ LoadPdf
  \/ LoadOddPdf
  \/ ClosePdf
  \/ ScrollTo
  \/ ScrollClamp
  \/ Resize
  \/ ZoomIn
  \/ ZoomOut

SpecSteps == Init /\ [][NextSteps]_vars

\* Selections drawn in every direction on the pages a load renders, at the
\* zooms near 1.0, extracted and captured.
NextDrag ==
  \/ LoadPdf
  \/ StepZoomIn
  \/ StepZoomOut
  \/ DragPress
  \/ DragMove
  \/ MouseRelease
  \/ KeyScreenshot

SpecDrag == Init /\ [][NextDrag]_vars

\* Selections on a one-page document while a gesture has changed the viewer's
\* zoom and the re-render waits for the timer.
NextGestureSel ==
  \/ LoadOddPdf
  \/ UserPinch
  \/ TimerFire
  \/ DragPress
  \/ DragMove
  \/ MouseRelease
  \/ KeyScreenshot

SpecGestureSel == Init /\ [][NextGestureSel]_vars

\* Gestures near 1.0 with the throttle timer: a single-shot QTimer that was
\* started times out unless it is stopped, so its timeout is weakly fair.
\* No other event is bound to arrive: a gesture may never end.
NextLive ==
  \/ LoadPdf
  \/ ClosePdf
  \/ ScrollTo
  \/ ScrollClamp
  \/ UserZoomIn
  \/ UserZoomOut
  \/ UserPinch
  \/ UserNativeGesture
  \/ TimerFire

\* The step of TimerFire as the timer and the event show it: TimerFire is the
\* only action that leaves the event "timeout", and it is enabled exactly
\* when the timer is active.
TimerTimeout == timer_active /\ timer_active' = FALSE /\ event' = "timeout"

SpecLive == Init /\ [][NextLive]_vars /\ WF_timer_active(TimerTimeout)

\* ------------------------------------------------------------ properties

\* A page entry is a Placeholder: not rendered, and it holds no page.
IsPlaceholder(w) == ~w.is_rendered /\ w.page = NoPage

\* The vertical span of entry i meets the swept range
\* [top - buffer, top + height + buffer], buffer = one viewport height, of
\* the viewport state the last sweep processed.
InSweptRange(i) ==
  LET lo == swept.top - swept.height
      hi == swept.top + swept.height + swept.height
  IN  WidgetBottom(page_widgets, i) >= lo /\ WidgetTop(page_widgets, i) <= hi

\* C1: while a document is loaded, after any scroll, zoom, gesture and timer
\* events, the Rendered entries are exactly the entries whose span meets the
\* buffered range of the most recently swept viewport state, and every other
\* entry is a Placeholder.
C1_RenderedIsSweptRange ==
  doc # NoDoc =>
    \A i \in 1..Len(page_widgets) :
      /\ page_widgets[i].is_rendered <=> InSweptRange(i)
      /\ ~InSweptRange(i) => IsPlaceholder(page_widgets[i])

\* A timer-driven re-render has run with the view scrolled down, and it left
\* entries of both kinds.
C1_Witness ==
  /\ doc # NoDoc
  /\ event = "timeout"
  /\ rerenders = 1
  /\ swept.top > 0
  /\ \E i, j \in 1..Len(page_widgets) :
       /\ page_widgets[i].is_rendered /\ InSweptRange(i)
       /\ IsPlaceholder(page_widgets[j]) /\ ~InSweptRange(j)

\* C2: the zoom is within [0.25, 3.0] in every reachable state, whatever the
\* interleaving of loads, zoom steps and gesture updates.
C2_ZoomInRange == ZoomMin <= zoom /\ zoom <= ZoomMax

\* A step in which a gesture update is accepted while the gesture goes on.
GestureUpdateStep ==
  /\ event' \in { "pinch", "native" }
  /\ in_gesture'
  /\ zoom' # zoom

\* C3: an update accepted while Gesturing re-renders nothing at that moment;
\* it leaves the re-render pending on the 150 ms single-shot timer, which an
\* update arriving while it runs joins without restarting it, and the timeout
\* runs one re-render for all the updates of its window.
C3_ThrottledRerender ==
  [][ /\ GestureUpdateStep =>
           /\ rerenders' = 0
           /\ render_calls' = 0
           /\ page_widgets' = page_widgets
           /\ pending_rerender'
           /\ timer_active'
           /\ timer_interval' = ThrottleMs
           /\ window_updates' = IF timer_active
                                THEN Min(MaxWindowUpdates, window_updates + 1)
                                ELSE 1
      /\ event' = "timeout" =>
           /\ timer_active
           /\ ~timer_active'
           /\ ~pending_rerender'
           /\ window_updates' = window_updates
           /\ window_updates >= 1
           /\ rerenders' = IF doc # NoDoc THEN 1 ELSE 0
    ]_vars

\* A timeout has run the one re-render of a window that took several updates.
C3_Witness ==
  /\ event = "timeout"
  /\ doc # NoDoc
  /\ in_gesture
  /\ window_updates >= 2
  /\ rerenders = 1
  /\ zoom # ZoomInitial

\* Every entry has the size of its page at zoom z, and the rendered ones were
\* rendered at z.
AllAtZoom(ws, d, z) ==
  \A i \in 1..Len(ws) :
    /\ ws[i].placeholder_size = DisplaySize(PageRect(d, ws[i].page_number), z)
    /\ ws[i].is_rendered => ws[i].zoom = z /\ ws[i].pixmap_size = ws[i].placeholder_size

\* C4: the end of a gesture (pinch Finished, native End) takes the controller
\* from Gesturing to Idle and runs exactly one re-render, at once and at the
\* settled zoom; the timer is stopped, so the re-render pending in the
\* throttle window is not run afterwards.
C4_GestureEndRerendersOnce ==
  [][ (event' \in { "pinch", "native" } /\ in_gesture /\ ~in_gesture') =>
        /\ ~timer_active'
        /\ rerenders' = IF doc # NoDoc THEN 1 ELSE 0
        /\ doc' = doc
        /\ doc # NoDoc => AllAtZoom(page_widgets', doc, zoom')
    ]_vars

\* A gesture has ended while its throttle window was open: one re-render ran,
\* the timer is stopped.
C4_Witness ==
  /\ event \in { "pinch", "native" }
  /\ doc # NoDoc
  /\ ~in_gesture
  /\ window_updates >= 1
  /\ ~timer_active
  /\ rerenders = 1
  /\ zoom # ZoomInitial

\* C5: every entry's display size is that of its page at the viewer's current
\* zoom, and no entry is rendered at a zoom its display size does not have.
C5_DisplaySizeCurrent ==
  doc # NoDoc => AllAtZoom(page_widgets, doc, zoom)

\* C6: a load_pdf that fails while a document is open leaves the page
\* entries, the document handle, the zoom and the current page as they were.
C6_FailedReloadKeepsState ==
  [][ (event' = "load_pdf_failed" /\ doc # NoDoc) =>
        /\ page_widgets' = page_widgets
        /\ doc' = doc
        /\ doc_closed' = doc_closed
        /\ zoom' = zoom
        /\ current_page' = current_page
    ]_vars

\* C7: after load_pdf returns, with or without a failure, the page sequence
\* holds no entry or one entry for every page of the open document.
C7_NeverPartiallyPopulated ==
  \/ Len(page_widgets) = 0
  \/ doc # NoDoc /\ Len(page_widgets) = PageCount(doc)

\* C8: in every reachable state an entry holds a page handle if and only if
\* its state is Rendered.
C8_RasterIffRendered ==
  \A i \in 1..Len(page_widgets) :
    page_widgets[i].page # NoPage <=> page_widgets[i].is_rendered

\* A sweep has unloaded an entry and kept another rendered.
C8_Witness ==
  /\ event = "scroll"
  /\ unload_calls > 0
  /\ \E i, j \in 1..Len(page_widgets) :
       /\ page_widgets[i].is_rendered /\ page_widgets[i].page # NoPage
       /\ ~page_widgets[j].is_rendered /\ page_widgets[j].page = NoPage

\* The entry holds no selection: no start, no end, no extracted text.
NoSelection(w) ==
  w.selection_start = NoPoint /\ w.selection_end = NoPoint /\ w.selected_text = ""

\* C9: an entry that a step turns into a Placeholder (unload, zoom reset) or
\* gives a new raster (set_page, on a sweep, a re-render or a load) holds no
\* selection after the step.
C9_SelectionCleared ==
  [][ \A i \in 1..Len(page_widgets') :
        ( \/ rerenders' > 0
          \/ event' = "load_pdf"
          \/ /\ i <= Len(page_widgets)
             /\ page_widgets'[i].is_rendered # page_widgets[i].is_rendered )
        => NoSelection(page_widgets'[i])
    ]_vars

\* A sweep has unloaded the entry a drag was going on in: the drag is still
\* on, the selection the press made is gone.
C9_Witness ==
  /\ event = "scroll"
  /\ unload_calls > 0
  /\ \E i \in 1..Len(page_widgets) :
       /\ page_widgets[i].is_selecting
       /\ ~page_widgets[i].is_rendered
       /\ NoSelection(page_widgets[i])

\* C10: a second run of the sweep with the same scroll offset, viewport
\* height, zoom and geometry renders nothing, unloads nothing, and leaves
\* every entry as the first run left it.
C10_SweepIdempotent ==
  LET once == UpdateVisiblePages(page_widgets, doc, zoom, scroll, viewport_height)
      twice == UpdateVisiblePages(once, doc, zoom, scroll, viewport_height)
  IN  /\ SweepRenders(once, doc, scroll, viewport_height) = {}
      /\ SweepUnloads(once, doc, scroll, viewport_height) = {}
      /\ twice = once

\* The viewport was resized, and a sweep of this state has an entry to render
\* or to unload.
C10_Witness ==
  /\ doc # NoDoc
  /\ event = "resize"
  /\ \/ SweepRenders(page_widgets, doc, scroll, viewport_height) # {}
     \/ SweepUnloads(page_widgets, doc, scroll, viewport_height) # {}

\* C11: the sweep runs on every scroll event and on every resize of the
\* viewport: after either, with a document open, the viewport state last
\* swept is the current one and the Rendered entries are those in its
\* buffered range.
C11_ScrollAndResizeSweep ==
  [][ (event' \in { "scroll", "resize" } /\ doc # NoDoc) =>
        /\ swept' = [ top |-> scroll', height |-> viewport_height' ]
        /\ \A i \in 1..Len(page_widgets') :
             page_widgets'[i].is_rendered
               <=> InView(page_widgets', i, scroll', viewport_height')
    ]_vars

\* C12: when the provider fails to render a page during a sweep, that entry
\* is left a Placeholder, and every other entry is Rendered exactly when it
\* is in the buffered range: the sweep goes on past the failure.
C12_RenderFailureIsolated ==
  [][ failed_renders' # {} =>
        \A i \in 1..Len(page_widgets') :
          IF page_widgets'[i].page_number \in failed_renders'
          THEN IsPlaceholder(page_widgets'[i])
          ELSE page_widgets'[i].is_rendered
                 <=> InView(page_widgets', i, scroll', viewport_height')
    ]_vars

\* C13: a gesture update whose zoom (gesture_base_zoom * scale for a pinch,
\* zoom * (1 + delta) for a native gesture) is outside [0.25, 3.0] is
\* dropped: the handler leaves the viewer as the same event without the
\* update does, with the zoom kept, no re-render run and the timer not started.
C13_OutOfBoundsUpdateDropped ==
  /\ \A state \in PinchStates, scale \in PinchScales :
       LET s == Enter("pinch")
           base == IF state = "started" THEN zoom ELSE gesture_base_zoom
           t == pinch_triggered(s, state, scale)
       IN  ((state = "started" \/ in_gesture) /\ ~ZoomInBounds(base * scale)) =>
             /\ t = pinch_triggered(s, state, NoScale)
             /\ t.zoom = zoom
             /\ state # "finished" =>
                  /\ t.rerenders = 0
                  /\ t.timer_active = timer_active
                  /\ t.pending_rerender = pending_rerender
                  /\ t.page_widgets = page_widgets
  /\ \A delta \in NativeDeltas :
       (in_gesture /\ ~ZoomInBounds(zoom * (ZoomDen + delta))) =>
         native_gesture_event(Enter("native"), "zoom", delta) = Enter("native")

\* A gesture is on over a document, the timer idle, and the next pinch scale
\* and the next native delta can each take the zoom out of bounds.
C13_Witness ==
  /\ doc # NoDoc
  /\ in_gesture
  /\ ~timer_active
  /\ event \in { "pinch", "native" }
  /\ \E scale \in PinchScales : ~ZoomInBounds(gesture_base_zoom * scale)
  /\ \E delta \in NativeDeltas : ~ZoomInBounds(zoom * (ZoomDen + delta))

\* C14: after the end of a gesture and after a zoom step taken outside a
\* gesture the timer is not active and the re-render has run at once; the
\* timer becomes active only by a gesture update, so a timeout re-renders
\* only in a window such an update opened.
C14_TimerCancelled ==
  [][ /\ ( \/ event' \in { "pinch", "native" } /\ in_gesture /\ ~in_gesture'
           \/ event' \in { "zoom_in", "zoom_out" } /\ ~in_gesture ) =>
         /\ ~timer_active'
         /\ (doc # NoDoc /\ (zoom' # zoom \/ event' \in { "pinch", "native" }))
              => rerenders' = 1
      /\ (timer_active' /\ ~timer_active) =>
           event' \in { "pinch", "native" } /\ in_gesture'
      /\ event' = "timeout" => timer_active /\ in_gesture
    ]_vars

\* A zoom step outside a gesture has re-rendered at once; the re-render a
\* gesture update had left pending was cancelled with its timer.
C14_Witness ==
  /\ doc # NoDoc
  /\ event \in { "zoom_in", "zoom_out" }
  /\ ~in_gesture
  /\ ~timer_active
  /\ pending_rerender
  /\ rerenders = 1

\* C15: a zoom step that changes the zoom re-renders at once: afterwards
\* every entry has the display size of its page at the new zoom and no
\* selection, the entries in the buffered range are Rendered at the new zoom
\* and the others are Placeholders.
C15_ZoomStepRerenders ==
  [][ (event' \in { "zoom_in", "zoom_out" } /\ zoom' # zoom /\ doc # NoDoc) =>
        /\ rerenders' = 1
        /\ AllAtZoom(page_widgets', doc', zoom')
        /\ \A i \in 1..Len(page_widgets') :
             /\ NoSelection(page_widgets'[i])
             /\ page_widgets'[i].is_rendered
                  <=> InView(page_widgets', i, scroll', viewport_height')
             /\ ~page_widgets'[i].is_rendered => IsPlaceholder(page_widgets'[i])
    ]_vars

\* A zoom step from 1.0 to 1.25 was taken during a drag on a page that is
\* rendered again, at the new size and without the selection; another page is
\* a placeholder.
C15_Witness ==
  /\ event = "zoom_in"
  /\ zoom = ZoomInitial + ZoomStep
  /\ \E i, j \in 1..Len(page_widgets) :
       /\ page_widgets[i].is_selecting
       /\ page_widgets[i].is_rendered
       /\ NoSelection(page_widgets[i])
       /\ page_widgets[i].pixmap_size
            = DisplaySize(PageRect(doc, page_widgets[i].page_number), zoom)
       /\ IsPlaceholder(page_widgets[j])

\* C16: zoom_in at zoom 3.0 and zoom_out at zoom 0.25 do nothing: the zoom
\* and every entry (state, display size, selection) are as before, no
\* re-render runs and the provider is not called.
C16_ZoomStepAtBoundNoOp ==
  [][ ( \/ event' = "zoom_in" /\ zoom = ZoomMax
        \/ event' = "zoom_out" /\ zoom = ZoomMin ) =>
        /\ zoom' = zoom
        /\ page_widgets' = page_widgets
        /\ rerenders' = 0
        /\ render_calls' = 0
        /\ unload_calls' = 0
    ]_vars

\* zoom_in has run at zoom 3.0 over a document with a rendered page, and
\* re-rendered nothing.
C16_Witness ==
  /\ doc # NoDoc
  /\ event = "zoom_in"
  /\ zoom = ZoomMax
  /\ rerenders = 0
  /\ \E i \in 1..Len(page_widgets) : page_widgets[i].is_rendered

\* C17: the begin of a gesture snapshots gesture_base_zoom = zoom, nothing
\* else writes the snapshot, and a pinch event that changes the zoom sets it
\* to snapshot * scale for the scale of that event, whatever the earlier
\* updates of the gesture made of the zoom.
C17_PinchUsesSnapshot ==
  [][ /\ (~in_gesture /\ in_gesture') => gesture_base_zoom' = zoom
      /\ gesture_base_zoom' # gesture_base_zoom =>
           event' \in { "pinch", "native" } /\ gesture_base_zoom' = zoom
      /\ (event' = "pinch" /\ zoom' # zoom) =>
           \E scale \in PinchScales :
             /\ ZoomInBounds(gesture_base_zoom' * scale)
             /\ zoom' = (gesture_base_zoom' * scale) \div ZoomDen
    ]_vars

\* A pinch update, the second of its window, has set the zoom to a multiple
\* of the snapshot other than the snapshot itself.
C17_Witness ==
  /\ event = "pinch"
  /\ in_gesture
  /\ window_updates >= 2
  /\ zoom # gesture_base_zoom
  /\ \E scale \in PinchScales : zoom = (gesture_base_zoom * scale) \div ZoomDen

\* A new entry for page p of document d: a Placeholder of the page's display
\* size at zoom z, with no page, no selection and no drag.
FreshPlaceholder(d, p, z) ==
  [ page |-> NoPage, zoom |-> NoZoom, selection_start |-> NoPoint,
    selection_end |-> NoPoint, selected_text |-> "", is_selecting |-> FALSE,
    page_number |-> p, is_rendered |-> FALSE,
    placeholder_size |-> DisplaySize(PageRect(d, p), z),
    pixmap_size |-> DisplaySize(PageRect(d, p), z),
    fixed_size |-> DisplaySize(PageRect(d, p), z) ]

\* C18: a successful load leaves exactly one entry per page of the new
\* document and nothing of the entries before it: each is a new Placeholder,
\* or, in the buffered range, that Placeholder rendered by the sweep.  An
\* entry becomes Rendered only in a step whose sweep has it in range, and
\* close_pdf leaves no entry.
C18_LoadCreatesPlaceholders ==
  [][ /\ event' = "load_pdf" =>
           /\ doc' \in Docs
           /\ Len(page_widgets') = PageCount(doc')
           /\ \A i \in 1..Len(page_widgets') :
                page_widgets'[i] =
                  IF InView(page_widgets', i, scroll', viewport_height')
                  THEN [ FreshPlaceholder(doc', i - 1, zoom') EXCEPT
                           !.page = i - 1, !.zoom = zoom', !.is_rendered = TRUE ]
                  ELSE FreshPlaceholder(doc', i - 1, zoom')
      /\ event' = "close_pdf" => page_widgets' = <<>> /\ doc' = NoDoc
      /\ \A i \in 1..Len(page_widgets') :
           ( /\ page_widgets'[i].is_rendered
             /\ \/ event' = "load_pdf"
                \/ i > Len(page_widgets)
                \/ ~page_widgets[i].is_rendered ) =>
             /\ InView(page_widgets', i, scroll', viewport_height')
             /\ render_calls' > 0
             /\ swept' = [ top |-> scroll', height |-> viewport_height' ]
    ]_vars

\* A document was loaded over a scrolled view of another: one entry per page,
\* one of them rendered, none in a drag.
C18_Witness ==
  /\ event = "load_pdf"
  /\ scroll > 0
  /\ Len(page_widgets) = PageCount(doc)
  /\ \E i \in 1..Len(page_widgets) : page_widgets[i].is_rendered
  /\ \A i \in 1..Len(page_widgets) : ~page_widgets[i].is_selecting

\* The signals of a handler, as a set.
Emitted(sigs) == { sigs[k] : k \in 1..Len(sigs) }

\* C19: pdf_loaded is emitted by a handler that leaves one placeholder or
\* rendered entry per page and has swept the current viewport; close_pdf
\* leaves no entry and no document; and with no document open no handler
\* other than a load calls the provider, re-renders or creates an entry.
C19_ReloadAndCloseAtomic ==
  [][ /\ "pdf_loaded" \in Emitted(emitted') =>
           /\ doc' \in Docs
           /\ Len(page_widgets') = PageCount(doc')
           /\ swept' = [ top |-> scroll', height |-> viewport_height' ]
           /\ \A i \in 1..Len(page_widgets') :
                page_widgets'[i].is_rendered
                  <=> InView(page_widgets', i, scroll', viewport_height')
      /\ event' = "close_pdf" => page_widgets' = <<>> /\ doc' = NoDoc
      /\ (doc = NoDoc /\ event' # "load_pdf") =>
           /\ doc' = NoDoc
           /\ page_widgets' = <<>>
           /\ render_calls' = 0
           /\ rerenders' = 0
    ]_vars

\* The throttle timer, started by a gesture update, has timed out after the
\* document, scrolled before, was closed: no entry, no provider call.
C19_Witness ==
  /\ event = "timeout"
  /\ doc = NoDoc
  /\ scroll > 0
  /\ page_widgets = <<>>
  /\ render_calls = 0
  /\ rerenders = 0

\* C20: a mouse press takes effect on a Rendered entry only: it leaves a
\* Placeholder entry as it was, without a selection.
C20_PressOnPlaceholderIgnored ==
  [][ event' = "mouse_press" =>
        \A i \in 1..Len(page_widgets) :
          ~page_widgets[i].is_rendered =>
            /\ page_widgets'[i] = page_widgets[i]
            /\ ~has_selection(page_widgets'[i])
    ]_vars

\* C21: a mouse move during a drag changes only the selection end point of
\* the entry (and the overlay drawn over its raster): it makes no render call
\* to the provider.
C21_MoveMakesNoRenderCall ==
  [][ event' = "mouse_move" =>
        /\ render_calls' = 0
        /\ \A i \in 1..Len(page_widgets) :
             page_widgets'[i] =
               [ page_widgets[i] EXCEPT !.selection_end = page_widgets'[i].selection_end ]
    ]_vars

\* C22: at any time at most one page entry holds a selection.
C22_AtMostOneSelection ==
  Cardinality({ i \in 1..Len(page_widgets) : has_selection(page_widgets[i]) }) <= 1

\* The normalised screen rectangle of a selection: left, top, right, bottom.
ScreenRect(w) ==
  << Min(w.selection_start[1], w.selection_end[1]),
     Min(w.selection_start[2], w.selection_end[2]),
     Max(w.selection_start[1], w.selection_end[1]),
     Max(w.selection_start[2], w.selection_end[2]) >>

\* The fractions of rect are the coordinates of w's normalised screen rectangle
\* divided by zoom * 2, compared by cross-multiplication.
IsDocRectOf(rect, w) ==
  /\ Len(rect) = 4
  /\ \A k \in 1..4 :
       /\ rect[k][2] # 0
       /\ rect[k][1] * w.zoom * RenderScale = ScreenRect(w)[k] * ZoomDen * rect[k][2]

Rendered(w) == w.is_rendered /\ w.page # NoPage

\* C23: a release that ends a drag on a Rendered entry with a selection makes
\* exactly one text-extraction call, for the entry's page and for the
\* normalised selection rectangle divided by zoom * 2, and stores the string
\* the provider returned, the empty string included, without any error.
C23_ReleaseExtractsText ==
  [][ \A i \in 1..Len(page_widgets) :
        ( /\ event' = "mouse_release"
          /\ page_widgets[i].is_selecting
          /\ ~page_widgets'[i].is_selecting
          /\ Rendered(page_widgets[i])
          /\ has_selection(page_widgets[i]) )
        => /\ Cardinality(region_calls') = 1
           /\ \A c \in region_calls' :
                /\ c.op = "get_text"
                /\ c.page = page_widgets[i].page
                /\ IsDocRectOf(c.rect, page_widgets[i])
           /\ page_widgets'[i].selected_text \in Texts
           /\ (page_widgets'[i].selected_text # "") = (emitted' # <<>>)
    ]_vars

\* C24: capture_selection_screenshot makes no provider call, and so returns
\* nothing, on an entry without a selection or not Rendered; on a Rendered
\* entry with a selection it requests exactly one crop, of the entry's page,
\* over the normalised selection rectangle divided by zoom * 2, with the
\* matrix zoom * 2.
C24_ScreenshotCropsSelection ==
  \A i \in 1..Len(page_widgets) :
    LET w == page_widgets[i]
        calls == capture_selection_screenshot(w)
    IN  IF ~has_selection(w) \/ ~Rendered(w)
        THEN calls = {}
        ELSE /\ Cardinality(calls) = 1
             /\ \A c \in calls :
                  /\ c.op = "get_pixmap"
                  /\ c.page = w.page
                  /\ IsDocRectOf(c.rect, w)
                  /\ Len(c.matrix) = 2
                  /\ c.matrix[1] * ZoomDen = w.zoom * RenderScale * c.matrix[2]

MouseEvents == { "mouse_press", "mouse_move", "mouse_release" }

\* C25: a mouse press, move or release leaves every Placeholder entry as it
\* was, the entry of a drag whose page was unloaded meanwhile included, and a
\* mouse event on such an entry makes no provider call and emits nothing.
C25_PlaceholderMouseNoOp ==
  [][ event' \in MouseEvents =>
        \A i \in 1..Len(page_widgets) :
          IsPlaceholder(page_widgets[i]) =>
            /\ page_widgets'[i] = page_widgets[i]
            /\ page_widgets[i].is_selecting =>
                 /\ render_calls' = 0
                 /\ region_calls' = {}
                 /\ emitted' = <<>>
    ]_vars

\* C26: after a handler that swept the viewport, by a scroll, a zoom
\* re-render, a page jump or a load, the current page is the entry whose span
\* contains the vertical centre of the viewport, whenever there is one.
C26_SweepRecomputesCurrentPage ==
  ( /\ sweeps > 0
    /\ doc # NoDoc
    /\ CentreWidgets(page_widgets, scroll, viewport_height) # {} )
  => \E i \in CentreWidgets(page_widgets, scroll, viewport_height) :
       current_page = page_widgets[i].page_number

\* C27: a scroll that leaves the viewport centre on the current page, or
\* puts it in a gap where no entry contains it, changes neither the current
\* page nor the value of the page spin box.
C27_IndicatorOnlyOnChange ==
  [][ ( /\ event' = "scroll"
        /\ \/ CentreWidgets(page_widgets', scroll', viewport_height') = {}
           \/ \E i \in CentreWidgets(page_widgets', scroll', viewport_height') :
                page_widgets'[i].page_number = current_page )
      => /\ current_page' = current_page
         /\ page_spin' = page_spin
    ]_vars

\* A scroll has put the centre in a gap and the current page is still a
\* later page than the first.
C27_Witness ==
  /\ event = "scroll"
  /\ doc # NoDoc
  /\ CentreWidgets(page_widgets, scroll, viewport_height) = {}
  /\ current_page > 0

\* The zooms that steps of 0.25 from 1.0 reach within [0.25, 3.0].
DiscreteZooms ==
  { z \in ZoomMin..ZoomMax : (z - ZoomInitial) % ZoomStep = 0 }

Abs(x) == IF x < 0 THEN -x ELSE x

\* The display size an entry of the page gets at zoom z1, against the one it
\* has at the viewer's zoom: | size(zoom) * z1 - size(z1) * zoom | in
\* dimension k, which is | size(zoom) - size(z1) * (zoom / z1) | times z1.
LinearityGap(w, z1, k) ==
  Abs(w.placeholder_size[k] * z1
        - DisplaySize(PageRect(doc, w.page_number), z1)[k] * zoom)

\* C28 as stated: between any two zooms reached by discrete steps the display
\* size of every entry scales linearly with the zoom up to one pixel.
C28_LinearWithinOnePixel ==
  doc # NoDoc =>
    \A i \in 1..Len(page_widgets), z1 \in DiscreteZooms, k \in 1..2 :
      LinearityGap(page_widgets[i], z1, k) <= z1

\* C28, amended: at every zoom reached by discrete steps the display size of
\* every entry is the page side times zoom times 2, truncated to a whole
\* pixel; between two such zooms z1 and z2 it scales linearly up to less than
\* max(1, z2 / z1) pixels.
C28_LinearWithinRatio ==
  doc # NoDoc =>
    \A i \in 1..Len(page_widgets), k \in 1..2 :
      LET w    == page_widgets[i]
          side == PageRect(doc, w.page_number)[k]
      IN  /\ w.placeholder_size[k] * ZoomDen <= side * zoom * RenderScale
          /\ side * zoom * RenderScale < (w.placeholder_size[k] + 1) * ZoomDen
          /\ \A z1 \in DiscreteZooms :
               LinearityGap(w, z1, k) < Max(z1, zoom)

\* Zoom steps have taken a document from 1.0 to another zoom at which some
\* entry's size is more than one pixel away from the linear scaling of its
\* size at another zoom.
C28_Witness ==
  /\ doc # NoDoc
  /\ event \in { "zoom_in", "zoom_out" }
  /\ zoom # ZoomInitial
  /\ \E i \in 1..Len(page_widgets), z1 \in DiscreteZooms, k \in 1..2 :
       LinearityGap(page_widgets[i], z1, k) > z1

C30_EntryAtOrOutOfRange ==
  doc # NoDoc =>
    \A page_num \in PageJumps :
      IF 0 <= page_num /\ page_num < Len(page_widgets)
      THEN /\ ~get_page_widget_raises(page_widgets, page_num)
           /\ get_page_widget(page_widgets, page_num) = page_widgets[page_num + 1]
      ELSE get_page_widget_raises(page_widgets, page_num)

\* C31: in every state all Rendered entries hold a raster of one and the same
\* zoom; a scroll sweep between an accepted gesture update and the throttled
\* re-render does not leave pages rendered at the old zoom next to pages
\* rendered at the new one.
C31_OneRasterZoom ==
  \A i, j \in 1..Len(page_widgets) :
    (Rendered(page_widgets[i]) /\ Rendered(page_widgets[j]))
      => page_widgets[i].zoom = page_widgets[j].zoom

\* C32: a load_pdf called after a load that failed at opening the file, and
\* that had closed the document open before it, succeeds: it leaves an open
\* document with one entry for each of its pages.
C32_LoadAfterFailedOpenSucceeds ==
  [][ (doc_closed /\ event' \in { "load_pdf", "load_pdf_failed" }) =>
        /\ event' = "load_pdf"
        /\ doc' \in Docs
        /\ ~doc_closed'
        /\ Len(page_widgets') = PageCount(doc')
    ]_vars

\* The display of an open document is not at the viewer's zoom.
DisplayStale == doc # NoDoc /\ ~AllAtZoom(page_widgets, doc, zoom)

\* C33: once a gesture update has changed the zoom of an open document, a
\* full re-render at the zoom of that moment follows, by the timeout of the
\* throttle timer if by nothing else, or the document is closed; this holds
\* when the gesture never ends.  The display does not stay at another zoom
\* than the viewer's for ever.
C33_GestureZoomEventuallyRendered ==
  (event \in { "pinch", "native" } /\ DisplayStale)
    ~> (doc = NoDoc \/ (rerenders > 0 /\ AllAtZoom(page_widgets, doc, zoom)))

\* A gesture update has changed the zoom and left the re-render to the timer.
C33_Witness ==
  /\ event = "pinch"
  /\ DisplayStale
  /\ in_gesture
  /\ timer_active
  /\ pending_rerender

\* C34: whenever the throttle timer is active, a gesture is in progress and a
\* re-render is pending: the timer never runs while Idle, and its timeout
\* always finds a re-render to perform.
C34_TimerImpliesGesturingAndPending ==
  timer_active => (in_gesture /\ pending_rerender)

\* The timer runs after an update of a native gesture.
C34_Witness ==
  /\ timer_active
  /\ event = "native"
  /\ doc # NoDoc
  /\ zoom # gesture_base_zoom

\* C35: in every state each entry has both selection points or neither.
C35_SelectionPointsTogether ==
  \A i \in 1..Len(page_widgets) :
    (page_widgets[i].selection_start = NoPoint)
      <=> (page_widgets[i].selection_end = NoPoint)

\* C36: in every state an entry that stores a non-empty selected text is
\* Rendered and has both selection points; the text the copy command takes
\* is that of a Rendered entry.
C36_TextOnlyOnRenderedSelection ==
  /\ \A i \in 1..Len(page_widgets) :
       page_widgets[i].selected_text # "" =>
         (Rendered(page_widgets[i]) /\ has_selection(page_widgets[i]))
  /\ (event = "key_c" /\ emitted # <<>>) =>
       /\ WidgetsWithSelection(page_widgets) # {}
       /\ Rendered(page_widgets[find_widget_with_selection(page_widgets)])
       /\ page_widgets[find_widget_with_selection(page_widgets)].selected_text # ""

\* The copy command has taken the text of a selection while another entry is
\* a Placeholder.
C36_Witness ==
  /\ event = "key_c"
  /\ "text_copied" \in Emitted(emitted)
  /\ \E i \in 1..Len(page_widgets) : IsPlaceholder(page_widgets[i])

\* The zooms at which the provider's raster of w's page has the size of the
\* raster w shows.
RasterZooms(w) ==
  { z \in ZoomMin..ZoomMax : DisplaySize(PageRect(doc, w.page), z) = w.pixmap_size }

\* C37: the rectangle of every extraction and capture call is the entry's
\* screen rectangle divided by 2 * the zoom of the raster the entry shows,
\* also while the viewer's zoom differs from it because the re-render of a
\* gesture update is pending.
C37_ConversionUsesRasterZoom ==
  \A c \in region_calls :
    LET w == page_widgets[c.page + 1]
    IN  \E z \in RasterZooms(w) :
          /\ \A k \in 1..4 :
               /\ c.rect[k][2] # 0
               /\ c.rect[k][1] * z * RenderScale
                    = ScreenRect(w)[k] * ZoomDen * c.rect[k][2]
          /\ c.op = "get_pixmap" =>
               c.matrix[1] * ZoomDen = z * RenderScale * c.matrix[2]

\* A call was made for an entry whose raster is not of the viewer's zoom,
\* the re-render being pending.
C37_Witness ==
  /\ pending_rerender
  /\ timer_active
  /\ \E c \in region_calls :
       /\ c.op = "get_pixmap"
       /\ page_widgets[c.page + 1].zoom # zoom
       /\ ScreenRect(page_widgets[c.page + 1])[1] > 0

\* C38: from a successful load on, under discrete zoom steps alone, the zoom
\* is a multiple of 0.25 within [0.25, 3.0].
C38_StepZoomOnQuarterGrid ==
  doc # NoDoc =>
    /\ ZoomMin <= zoom /\ zoom <= ZoomMax
    /\ (zoom * 4) % ZoomDen = 0

\* Zoom steps have reached the upper bound 3.0 exactly and stopped there.
C38_Witness ==
  /\ doc # NoDoc
  /\ event = "zoom_in"
  /\ zoom = ZoomMax
  /\ rerenders = 0

\* Zoom steps have reached the lower bound 0.25 exactly and stopped there.
C38_WitnessLow ==
  /\ doc # NoDoc
  /\ event = "zoom_out"
  /\ zoom = ZoomMin
  /\ rerenders = 0

\* C39: while a document is open the page sequence has one entry for each of
\* its pages, and the entry at position i is that of page i.
C39_EntriesMatchPages ==
  (doc # NoDoc /\ ~doc_closed) =>
    /\ Len(page_widgets) = PageCount(doc)
    /\ \A i \in 1..Len(page_widgets) : page_widgets[i].page_number = i - 1

NavEvents == { "go_to_page", "next_page", "previous_page" }

\* C40: page navigation keeps the current page a valid index.  next_page on
\* the last page and previous_page on page 0 change nothing; otherwise they
\* leave the current page one higher, one lower, than before, also when the
\* scroll they cause runs the scroll handler's page-indicator update; a
\* go_to_page leaves the current page as it was or inside the document.
C40_NavigationKeepsPageValid ==
  [][ (/\ event' \in NavEvents /\ doc # NoDoc
       /\ scroll <= ScrollMax(page_widgets, viewport_height)) =>
        /\ 0 <= current_page' /\ current_page' < PageCount(doc)
        /\ event' = "next_page" =>
             IF current_page >= PageCount(doc) - 1
             THEN current_page' = current_page /\ scroll' = scroll
             ELSE current_page' = current_page + 1
        /\ event' = "previous_page" =>
             IF current_page <= 0
             THEN current_page' = current_page /\ scroll' = scroll
             ELSE current_page' = current_page - 1
    ]_vars

====
